---- MODULE Spec2Model ----
(***************************************************************************)
(* FAISSRetriever (lightrag/components/retriever/faiss_retriever.py).      *)
(*                                                                         *)
(* One retriever object: its fields dimensions, top_k, embedder, index,    *)
(* total_chunks and indexed, and the three public operations               *)
(* build_index_from_documents, reset_index and __call__ (retrieve).        *)
(* Vectors are sequences of small integers; the numpy and faiss calls the  *)
(* code makes are modelled by the shape rules the code relies on.          *)
(***************************************************************************)
EXTENDS Integers, Sequences, FiniteSets, TLC

\* ------------------------------------------------------------------ bounds
MaxCorpus == 2        \* longest corpus passed to build_index_from_documents
MaxBatch == 2         \* longest query batch passed to __call__
DefaultTopK == 5      \* __init__(top_k: int = 5)

Dims == {1, 2}        \* the vector lengths that occur
Vals == {1, 2}        \* the components that occur
TopKs == {0, 1}       \* the top_k argument of __call__; 0 stands for None
Texts == {"", "a", "b"}

VecsOfDim(d) == [1..d -> Vals]
Vecs == UNION {VecsOfDim(d) : d \in Dims}
SeqsUpTo(S, n) == UNION {[1..m -> S] : m \in 0..n}

Min(a, b) == IF a < b THEN a ELSE b

\* ------------------------------------------------------------- the inputs
\* A corpus as the caller passes it: "list" is List[List[float]], "ndlist"
\* is List[np.ndarray], "matrix" is a 2-d np.ndarray of shape (n, d).
ListCorpora == {[fmt |-> f, d |-> 0, rows |-> r] :
                    f \in {"list", "ndlist"}, r \in SeqsUpTo(Vecs, MaxCorpus)}
MatrixCorpora == UNION {{[fmt |-> "matrix", d |-> d, rows |-> r] :
                    r \in SeqsUpTo(VecsOfDim(d), MaxCorpus)} : d \in Dims}
Corpora == ListCorpora \cup MatrixCorpora

\* A query input as the caller passes it: "str" is one string, "strlist" a
\* list of strings, "flat" one vector (List[float]), "list" a list of vectors
\* (List[List[float]], [] included), "matrix" a 2-d np.ndarray.
NoRows == <<>>
TextInputs == {[fmt |-> "str", d |-> 0, texts |-> <<t>>, rows |-> NoRows] : t \in Texts}
    \cup {[fmt |-> "strlist", d |-> 0, texts |-> ts, rows |-> NoRows] :
                    ts \in SeqsUpTo(Texts, MaxBatch) \ {<<>>}}
VectorInputs == {[fmt |-> "flat", d |-> 0, texts |-> <<>>, rows |-> <<v>>] : v \in Vecs}
    \cup {[fmt |-> "list", d |-> 0, texts |-> <<>>, rows |-> r] :
                    r \in SeqsUpTo(Vecs, MaxBatch)}
    \cup UNION {{[fmt |-> "matrix", d |-> d, texts |-> <<>>, rows |-> r] :
                    r \in SeqsUpTo(VecsOfDim(d), MaxBatch)} : d \in Dims}
Inputs == TextInputs \cup VectorInputs

\* all(len(doc) == len(documents[0]) for doc in documents)
Uniform(rows) == \A i \in 1..Len(rows) : Len(rows[i]) = Len(rows[1])

\* --------------------------------------------------------------- the state
VARIABLES
    dimensions,     \* self.dimensions; 0 stands for None
    embedder,       \* the length of the vectors self.embedder returns
    index,          \* self.index: NoIndex (None) or a faiss.IndexFlatIP
    total_chunks,   \* self.total_chunks; NoAttr until it is first assigned
    indexed,        \* self.indexed
    ctor_dimensions,\* the dimensions argument __init__ was given; 0 for None
    prev,           \* what came before: "init", "size_failure" (a build that
                    \* failed on the same-size assertion) or "other"
    op,             \* the call that has just returned, with its arguments,
                    \* or Idle
    ret             \* what that call returned or raised

vars == <<dimensions, embedder, index, total_chunks, indexed, ctor_dimensions, prev, op, ret>>

NoAttr == -1
NoIndex == [exists |-> FALSE, d |-> 0, vecs |-> <<>>]
\* faiss.IndexFlatIP(d) followed by index.add(xb)
IndexFlatIP(d, xb) == [exists |-> TRUE, d |-> d, vecs |-> xb]
\* index.ntotal
ntotal(ix) == Len(ix.vecs)

Self == [dimensions |-> dimensions, embedder |-> embedder, index |-> index,
         total_chunks |-> total_chunks, indexed |-> indexed]

\* Retriever.indexed, the class attribute __init__ leaves untouched
InitIndexed == FALSE

\* ------------------------------------------------------------- reset_index
\* variants of reset_index, build and the result assembler with one step
\* left out; the claims below must tell each from the code
reset_index_keeps_vectors(s) ==
    [s EXCEPT !.total_chunks = 0, !.indexed = FALSE]

reset_index_keeps_count(s) ==
    [s EXCEPT !.index = IF s.index.exists
                         THEN [s.index EXCEPT !.vecs = <<>>] ELSE s.index,
              !.indexed = FALSE]

reset_index(s) ==
    [s EXCEPT !.index = IF s.index.exists
                         THEN [s.index EXCEPT !.vecs = <<>>] ELSE s.index,
              !.total_chunks = 0,
              !.indexed = FALSE]

\* ---------------------------------------------- build_index_from_documents
SizeError == "AssertionError: All embeddings should be of the same size"
\* xb.shape[1] of the array the corpus becomes
Shape1(docs) == IF docs.fmt = "matrix" THEN docs.d ELSE Len(docs.rows[1])

RECURSIVE Reverse(_)
Reverse(q) == IF q = <<>> THEN <<>> ELSE Reverse(Tail(q)) \o <<Head(q)>>

BuildTry_reversed(s, docs) ==
    LET s1 == [s EXCEPT !.total_chunks = Len(docs.rows)] IN
    IF docs.fmt # "matrix" /\ Len(docs.rows) = 0
    THEN [self |-> s1, err |-> "IndexError"]
    ELSE IF docs.fmt = "list" /\ ~Uniform(docs.rows)
    THEN [self |-> s1, err |-> SizeError]
    ELSE IF docs.fmt = "ndlist"
    THEN [self |-> s1, err |-> "AttributeError"]
    ELSE IF s1.dimensions # 0 /\ s1.dimensions # Shape1(docs)
    THEN [self |-> s1, err |-> "AssertionError: Dimension mismatch"]
    ELSE LET d == Shape1(docs) IN
         [self |-> [s1 EXCEPT !.dimensions = d,
                              !.index = IndexFlatIP(d, Reverse(docs.rows)),
                              !.indexed = TRUE],
          err |-> ""]

\* The body of the try block: the fields it leaves and the exception, if any.
BuildTry(s, docs) ==
    LET s1 == [s EXCEPT !.total_chunks = Len(docs.rows)] IN
    IF docs.fmt # "matrix" /\ Len(docs.rows) = 0
    THEN [self |-> s1, err |-> "IndexError"]                \* documents[0]
    ELSE IF docs.fmt = "list" /\ ~Uniform(docs.rows)
    THEN [self |-> s1, err |-> SizeError]
    ELSE IF docs.fmt = "ndlist"
    THEN [self |-> s1, err |-> "AttributeError"]            \* list.shape
    ELSE IF s1.dimensions # 0 /\ s1.dimensions # Shape1(docs)
    THEN [self |-> s1, err |-> "AssertionError: Dimension mismatch"]
    ELSE LET d == Shape1(docs) IN
         [self |-> [s1 EXCEPT !.dimensions = d,
                              !.index = IndexFlatIP(d, docs.rows),
                              !.indexed = TRUE],
          err |-> ""]

build_index_from_documents(s, docs) ==
    LET t == BuildTry(s, docs) IN
    IF t.err = "" THEN t ELSE [self |-> reset_index(t.self), err |-> t.err]

\* ------------------------------------------------------ numpy and faiss
Sentinel == -1          \* the index faiss returns for a missing neighbour
NegInf == -1000         \* the score faiss returns with it

RECURSIVE DotFrom(_, _, _)
DotFrom(u, v, i) == IF i > Len(u) THEN 0 ELSE u[i] * v[i] + DotFrom(u, v, i + 1)
\* the inner product IndexFlatIP ranks by
Dot(u, v) == DotFrom(u, v, 1)

\* np.array(rows, dtype=np.float32): [] and a flat vector become 1-d arrays,
\* a list of equally long vectors a 2-d array, a jagged list raises.
NpArray(fmt, rows) ==
    IF fmt = "flat" THEN [err |-> "", ndim |-> 1, rows |-> rows]
    ELSE IF Len(rows) = 0 THEN [err |-> "", ndim |-> 1, rows |-> rows]
    ELSE IF ~Uniform(rows) THEN [err |-> "ValueError: inhomogeneous", ndim |-> 0, rows |-> rows]
    ELSE [err |-> "", ndim |-> 2, rows |-> rows]

\* index.search(xq, k) unpacks n, d = xq.shape and asserts d == index.d, k > 0
SearchErr(ix, xq, k) ==
    IF xq.ndim # 2 THEN "ValueError: shape"
    ELSE IF Len(xq.rows[1]) # ix.d THEN "AssertionError: d"
    ELSE IF k <= 0 THEN "AssertionError: k"
    ELSE ""

\* The rankings IndexFlatIP may return for one query: the min(k, ntotal) best
\* stored vectors by descending inner product, ties in any order.
TopOrders(ix, q, k) ==
    LET n == ntotal(ix)
        m == Min(k, n)
        sc(i) == Dot(q, ix.vecs[i])
    IN {p \in [1..m -> 1..n] :
          /\ \A a, b \in 1..m : a < b => (p[a] # p[b] /\ sc(p[a]) >= sc(p[b]))
          /\ \A j \in 1..n : (\A a \in 1..m : p[a] # j)
                                => \A a \in 1..m : sc(j) <= sc(p[a])}

\* The (D, Ind) pairs index.search(xq, k) may return: k columns per row,
\* positions are 0-based, missing neighbours are (NegInf, Sentinel).
Search(ix, xq, k) ==
    LET R == Len(xq.rows)
        all == UNION {TopOrders(ix, xq.rows[r], k) : r \in 1..R}
        m == Min(k, ntotal(ix))
    IN {[Ind |-> [r \in 1..R |-> [c \in 1..k |->
                    IF c <= m THEN ps[r][c] - 1 ELSE Sentinel]],
         D |-> [r \in 1..R |-> [c \in 1..k |->
                    IF c <= m THEN Dot(xq.rows[r], ix.vecs[ps[r][c]]) ELSE NegInf]]] :
          ps \in {f \in [1..R -> all] :
                    \A r \in 1..R : f[r] \in TopOrders(ix, xq.rows[r], k)}}

\* -------------------------------------------------- the result assembler
\* (D + 1) / 2 rounded to 3 decimals, in thousandths
convert_cosine_similarity_to_probability(D) ==
    [r \in 1..Len(D) |-> [c \in 1..Len(D[r]) |-> 500 * (D[r][c] + 1)]]

\* RetrieverOutput.doc_scores and .query when the constructor is not given them
DefaultDocScores == <<>>
NoQuery == "<None>"
RetrieverOutput(doc_indices, doc_scores, query) ==
    [doc_indices |-> doc_indices, doc_scores |-> doc_scores, query |-> query]

RECURSIVE KeepCols(_, _, _)
\* row[valid_columns]
KeepCols(row, valid, c) ==
    IF c > Len(row) THEN <<>>
    ELSE (IF valid[c] THEN <<row[c]>> ELSE <<>>) \o KeepCols(row, valid, c + 1)

to_retriever_output_unfiltered(Ind, D) ==
    [r \in 1..Len(Ind) |-> RetrieverOutput(Ind[r], D[r], NoQuery)]

to_retriever_output_scores_unfiltered(Ind, D) ==
    LET valid == [c \in 1..Len(Ind[1]) |-> \A r \in 1..Len(Ind) : Ind[r][c] # Sentinel]
    IN [r \in 1..Len(Ind) |-> RetrieverOutput(KeepCols(Ind[r], valid, 1), D[r], NoQuery)]

to_retriever_output(Ind, D) ==
    IF Len(Ind) = 0 THEN <<>>
    ELSE LET has == \E r \in 1..Len(Ind) : \E c \in 1..Len(Ind[r]) : Ind[r][c] = Sentinel
             valid == [c \in 1..Len(Ind[1]) |->
                          ~has \/ \A r \in 1..Len(Ind) : Ind[r][c] # Sentinel]
         IN [r \in 1..Len(Ind) |->
                RetrieverOutput(KeepCols(Ind[r], valid, 1), KeepCols(D[r], valid, 1), NoQuery)]

Raise(e) == [err |-> e, out |-> <<>>]
Return(out) == [err |-> "", out |-> out]

\* top_k if top_k else self.top_k
EffectiveTopK(top_k) == IF top_k # 0 THEN top_k ELSE DefaultTopK

\* ---------------------------------------------- retrieve_embedding_queries
retrieve_embedding_queries(s, input, top_k) ==
    IF input.fmt = "matrix" THEN {Raise("UnboundLocalError")}     \* xq never bound
    ELSE IF ~s.index.exists THEN {Raise("AttributeError")}        \* None.search
    ELSE LET xq == NpArray(input.fmt, input.rows)
             k == EffectiveTopK(top_k)
         IN IF xq.err # "" THEN {Raise(xq.err)}
            ELSE IF SearchErr(s.index, xq, k) # "" THEN {Raise(SearchErr(s.index, xq, k))}
            ELSE {Return(to_retriever_output(
                            r.Ind, convert_cosine_similarity_to_probability(r.D))) :
                    r \in Search(s.index, xq, k)}

\* ------------------------------------------------- retrieve_string_queries
\* The embedding provider: one vector of length e per text, in order.
Embed(q, e) == [i \in 1..e |-> IF q = "b" /\ i = 1 THEN 2 ELSE 1]

\* valid_queries
ValidQueries(queries) == SelectSeq(queries, LAMBDA q : q # "")

RECURSIVE RecordMapFrom(_, _)
\* record_map as the sequence of original positions of the valid queries
RecordMapFrom(queries, i) ==
    IF i > Len(queries) THEN <<>>
    ELSE (IF queries[i] # "" THEN <<i>> ELSE <<>>) \o RecordMapFrom(queries, i + 1)
record_map(queries) == RecordMapFrom(queries, 1)

\* The loop that copies the retrieved rows into the per-query defaults.
FillOutput(queries, retrieved_output) ==
    LET rm == record_map(queries) IN
    [j \in 1..Len(queries) |->
        IF \E i \in 1..Len(retrieved_output) : rm[i] = j
        THEN LET i == CHOOSE i \in 1..Len(retrieved_output) : rm[i] = j
             IN RetrieverOutput(retrieved_output[i].doc_indices,
                                retrieved_output[i].doc_scores, queries[j])
        ELSE RetrieverOutput(<<>>, DefaultDocScores, queries[j])]

retrieve_string_queries(s, input, top_k, emb_fails) ==
    IF ~s.index.exists THEN {Raise("AttributeError")}             \* None.ntotal
    ELSE IF ntotal(s.index) = 0 THEN {Raise("ValueError: Index is empty")}
    ELSE IF emb_fails THEN {Raise("EmbedderError")}
    ELSE LET queries == input.texts
             valid_queries == ValidQueries(queries)
             xq == NpArray("list", [i \in 1..Len(valid_queries) |->
                                      Embed(valid_queries[i], s.embedder)])
             k == EffectiveTopK(top_k)
         IN IF SearchErr(s.index, xq, k) # "" THEN {Raise(SearchErr(s.index, xq, k))}
            ELSE {Return(FillOutput(queries, to_retriever_output(
                            r.Ind, convert_cosine_similarity_to_probability(r.D)))) :
                    r \in Search(s.index, xq, k)}

\* ----------------------------------------------------------------- __call__
\* isinstance(input, str) or (isinstance(input, Sequence) and isinstance(input[0], str))
IsStringInput(input) == input.fmt \in {"str", "strlist"}

call_unguarded(s, input, top_k, emb_fails) ==
    IF IsStringInput(input) THEN retrieve_string_queries(s, input, top_k, emb_fails)
    ELSE retrieve_embedding_queries(s, input, top_k)

call(s, input, top_k, emb_fails) ==
    IF ~s.indexed THEN {Raise("AssertionError: Index is not built")}
    ELSE IF input.fmt = "list" /\ Len(input.rows) = 0 THEN {Raise("IndexError")}
    ELSE IF IsStringInput(input) THEN retrieve_string_queries(s, input, top_k, emb_fails)
    ELSE retrieve_embedding_queries(s, input, top_k)

\* ------------------------------------------------------------- the actions
NoArg == [fmt |-> "none", d |-> 0, texts |-> <<>>, rows |-> NoRows]
Idle == [name |-> "idle", arg |-> NoArg, top_k |-> 0, after |-> "none"]
Done(name, arg, top_k) == [name |-> name, arg |-> arg, top_k |-> top_k, after |-> prev]

\* FAISSRetriever(embedder, dimensions=ctor_dimensions) without documents
Init ==
    /\ ctor_dimensions \in {0} \cup Dims
    /\ dimensions = ctor_dimensions
    /\ embedder \in Dims
    /\ index = NoIndex
    /\ total_chunks = NoAttr
    /\ indexed = InitIndexed
    /\ prev = "init"
    /\ op = Idle
    /\ ret = Return(<<>>)

Store(s) ==
    /\ dimensions' = s.dimensions
    /\ index' = s.index
    /\ total_chunks' = s.total_chunks
    /\ indexed' = s.indexed
    /\ UNCHANGED <<embedder, ctor_dimensions>>

Build ==
    /\ op = Idle
    /\ \E docs \in Corpora :
        LET b == build_index_from_documents(Self, docs) IN
        /\ Store(b.self)
        /\ op' = Done("build", [fmt |-> docs.fmt, d |-> docs.d, texts |-> <<>>,
                                rows |-> docs.rows], 0)
        /\ ret' = Raise(b.err)
        /\ prev' = IF b.err = SizeError THEN "size_failure" ELSE "other"

Reset ==
    /\ op = Idle
    /\ Store(reset_index(Self))
    /\ op' = Done("reset", NoArg, 0)
    /\ ret' = Return(<<>>)
    /\ prev' = "other"

Retrieve ==
    /\ op = Idle
    /\ \E input \in Inputs, top_k \in TopKs :
        \E emb_fails \in (IF IsStringInput(input) THEN BOOLEAN ELSE {FALSE}) :
        \E r \in call(Self, input, top_k, emb_fails) :
            /\ op' = Done("call", input, top_k)
            /\ ret' = r
            /\ prev' = "other"
            /\ UNCHANGED <<dimensions, embedder, ctor_dimensions, index, total_chunks, indexed>>

\* The caller takes the result or the exception and is free to call again.
Continue ==
    /\ op # Idle
    /\ op' = Idle
    /\ ret' = Return(<<>>)
    /\ UNCHANGED <<dimensions, embedder, ctor_dimensions, index, total_chunks, indexed, prev>>

Next == Build \/ Reset \/ Retrieve \/ Continue

Spec == Init /\ [][Next]_vars

\* ------------------------------------------------------------ the claims
Called == op.name = "call"
Built == op.name = "build"
Returned == ret.err = ""
\* the queries of the call that has returned
NQueries == IF IsStringInput(op.arg) THEN Len(op.arg.texts) ELSE Len(op.arg.rows)
\* query i of that call was sent to index.search
Searched(i) == IsStringInput(op.arg) => op.arg.texts[i] # ""
\* doc_indices is one of the rankings index.search may give for query q
IsSearchRow(doc_indices, q) ==
    \E p \in TopOrders(index, q, EffectiveTopK(op.top_k)) :
        doc_indices = [c \in 1..Len(p) |-> p[c] - 1]

\* C1: on a ready, non-empty index a text batch of N >= 1 strings (empty
\* strings included, the all-empty batch too) returns N Results; the Result
\* at position i is empty for an empty query and is the search row of the
\* query's own embedding otherwise.
C1_OneResultPerTextQuery ==
    (/\ Called /\ IsStringInput(op.arg) /\ indexed /\ ntotal(index) > 0
     /\ embedder = index.d /\ ret.err # "EmbedderError")
    => /\ Returned
       /\ Len(ret.out) = Len(op.arg.texts)
       /\ \A i \in 1..Len(op.arg.texts) :
            IF op.arg.texts[i] = "" THEN ret.out[i].doc_indices = <<>>
            ELSE IsSearchRow(ret.out[i].doc_indices, Embed(op.arg.texts[i], embedder))

\* C2: a failed build leaves indexed false, total_chunks 0 and no vector in
\* the index, whatever the state before; and indexed false never goes with
\* a non-empty index.
C2_FailedBuildLeavesEmptyStore ==
    /\ (Built /\ ~Returned) => (~indexed /\ total_chunks = 0 /\ ntotal(index) = 0)
    /\ ~indexed => ntotal(index) = 0

C2_Witness == Built /\ ~Returned /\ index.exists /\ op.after = "other"

\* C3: right after a build that failed on vectors of unequal length, a
\* build with a non-empty list of equally long vectors succeeds and leaves
\* the store ready (when __init__ was given dimensions, for vectors of that
\* length).
C3_BuildAfterSizeFailureSucceeds ==
    (/\ Built /\ op.after = "size_failure" /\ op.arg.fmt = "list"
     /\ Len(op.arg.rows) > 0 /\ Uniform(op.arg.rows)
     /\ ctor_dimensions \in {0, Len(op.arg.rows[1])})
    => (Returned /\ indexed)

\* C4: __call__ in a state where indexed is false raises the "Index is not
\* built" assertion and returns nothing, for text and vector input alike.
C4_NotReadyRaises ==
    (Called /\ ~indexed)
    => (ret.err = "AssertionError: Index is not built" /\ ret.out = <<>>)

C4_Witness == Called /\ ~indexed /\ op.after = "init" /\ op.arg.fmt = "list"
              /\ Len(op.arg.rows) > 0

DistinctEqualNorm(vecs) ==
    \A i, j \in 1..Len(vecs) :
        /\ Dot(vecs[i], vecs[i]) = Dot(vecs[j], vecs[j])
        /\ i # j => vecs[i] # vecs[j]

C6_NoSentinelMinKN ==
    (Called /\ Returned)
    => \A i \in 1..Len(ret.out) :
          /\ Searched(i) => Len(ret.out[i].doc_indices)
                              = Min(EffectiveTopK(op.top_k), ntotal(index))
          /\ \A c \in 1..Len(ret.out[i].doc_indices) :
                ret.out[i].doc_indices[c] # Sentinel

C6_Witness ==
    /\ Called /\ Returned /\ Len(ret.out) = 2
    /\ ntotal(index) = 1 /\ EffectiveTopK(op.top_k) > 1
    /\ \A i \in 1..2 : ret.out[i].doc_indices = <<0>>

\* C7: every Result has as many doc_scores as doc_indices, and both are
\* empty for a text query that was skipped as empty.
C7_IndicesAndScoresAligned ==
    (Called /\ Returned)
    => \A i \in 1..Len(ret.out) :
          /\ Len(ret.out[i].doc_indices) = Len(ret.out[i].doc_scores)
          /\ ~Searched(i) => (ret.out[i].doc_indices = <<>> /\ ret.out[i].doc_scores = <<>>)

C7_Witness ==
    /\ Called /\ Returned /\ op.arg.texts = <<"", "a">>
    /\ ret.out[1].doc_scores = <<>> /\ Len(ret.out[2].doc_scores) = 2

\* C8: a build with a corpus of length 0 fails and leaves indexed false and
\* total_chunks 0; no ready store holds zero vectors.
C8_EmptyCorpusBuildFails ==
    /\ (Built /\ Len(op.arg.rows) = 0) => (~Returned /\ ~indexed /\ total_chunks = 0)
    /\ ~(indexed /\ ntotal(index) = 0)

\* C9: on a ready index a vector input of any documented shape (one flat
\* vector, a list of vectors, a 2-d array) with vectors of the index's
\* length returns one Result per query.
C9_EveryVectorShapeAccepted ==
    (/\ Called /\ ~IsStringInput(op.arg) /\ indexed
     /\ Len(op.arg.rows) > 0
     /\ \A r \in 1..Len(op.arg.rows) : Len(op.arg.rows[r]) = index.d)
    => (Returned /\ Len(ret.out) = Len(op.arg.rows))

\* C10: reset_index raises nothing, leaves total_chunks 0 and indexed
\* false, and a second reset_index changes nothing.
C10_ResetIdempotent ==
    op.name = "reset"
    => (/\ Returned /\ total_chunks = 0 /\ ~indexed
        /\ reset_index(Self) = Self)

C10_Witness == op.name = "reset" /\ index.exists /\ index.vecs = <<>> /\ dimensions # 0

====
